---- MODULE Spec2Model ----
(***************************************************************************)
(* The storefront gateway (gateway/service.py) and the product storage     *)
(* (products/dependencies.py) as a state machine.                          *)
(*                                                                         *)
(* State: the Redis keyspace behind StorageWrapper, the orders held by the *)
(* orders service, and one record per in-flight request.  Every Redis      *)
(* command and every call of the orders service is one atomic step; what a *)
(* handler computes locally between two of them belongs to the step before *)
(* it.  list() is one command per key (and one SCAN when it lists all), so *)
(* other requests run between its reads.  products_rpc.get/list/create/    *)
(* delete are StorageWrapper's methods of the same name; of the products   *)
(* service between them only what create answers is modelled.              *)
(***************************************************************************)
EXTENDS Integers, Sequences, FiniteSets, TLC

VARIABLES
    redis,      \* Redis keyspace: key -> hash (field -> bytes); <<>> = no key
    orders,     \* orders service: sequence of stored orders, in id order
    pc,         \* per request slot: position of the handler
    req,        \* per request slot: the request being served
    calls,      \* per request slot: backend calls issued so far, in order
    tmp,        \* per request slot: local variables kept across steps
    resp,       \* per request slot: the response (or the raised exception)
    started     \* number of requests and direct calls accepted so far

vars == <<redis, orders, pc, req, calls, tmp, resp, started>>

-----------------------------------------------------------------------------
(* Bounds of the model *)

MaxLines == 2       \* order lines per submitted order, ids per list() call
MaxOrders == 2      \* orders the orders service may hold
MaxRequests == 3    \* requests and direct calls accepted in one behaviour
MaxDebt == 2        \* direct decrement_stock calls stop at in_stock = -MaxDebt

-----------------------------------------------------------------------------
(* Values *)

Slots == {"r1", "r2"}

ProductIdSet == {"p1", "p2"}

IMAGE_ROOT == "http://img"

NoReq == [op |-> "none"]

NoResp == [status |-> "none"]

NoTmp == [set |-> FALSE]

\* Product payloads (Python dicts with the five Product fields).
ProductVariant(id, v) ==
    IF v = 1
    THEN [id |-> id, title |-> "A", passenger_capacity |-> 10,
          maximum_speed |-> 5, in_stock |-> 3]
    ELSE [id |-> id, title |-> "B", passenger_capacity |-> 4,
          maximum_speed |-> 12, in_stock |-> 0]

ProductPayloads == {ProductVariant(id, v) : id \in ProductIdSet, v \in {1, 2}}

Fields == {"id", "title", "passenger_capacity", "maximum_speed", "in_stock"}

IntFields == {"passenger_capacity", "maximum_speed", "in_stock"}

EmptyHash == <<>>

-----------------------------------------------------------------------------
(* Texts and int(): a str is the sequence of its code points, a bytes value
   the sequence of its bytes *)

RECURSIVE Digits(_)
Digits(n) ==
    IF n < 10 THEN <<48 + n>>
    ELSE Digits(n \div 10) \o <<48 + (n % 10)>>

\* the decimal text the client stores for an int field, and str(n): ASCII
\* digits after "-" (45) for a negative n
Itoa(n) == IF n < 0 THEN <<45>> \o Digits(-n) ELSE Digits(n)

\* the digit zero of bytes: "0"
AsciiZeros == {48}

\* the digits zero of a str: the code points with decimal value 0 (Unicode
\* 14.0.0), each the first of ten digits in a row, "0" to U+1FBF0
DecimalZeros ==
    {48, 1632, 1776, 1984, 2406, 2534, 2662, 2790,
     2918, 3046, 3174, 3302, 3430, 3558, 3664, 3792,
     3872, 4160, 4240, 6112, 6160, 6470, 6608, 6784,
     6800, 6992, 7088, 7232, 7248, 42528, 43216, 43264,
     43472, 43504, 43600, 44016, 65296, 66720, 68912, 69734,
     69872, 69942, 70096, 70384, 70736, 70864, 71248, 71360,
     71472, 71904, 72016, 72784, 73040, 73120, 92768, 92864,
     93008, 120782, 120792, 120802, 120812, 120822, 123200, 123632,
     125264, 130032}

\* a digit counted from one of the zeros
IsDigit(c, zeros) == \E z \in zeros : z <= c /\ c <= z + 9

DigitValue(c, zeros) == c - (CHOOSE z \in zeros : z <= c /\ c <= z + 9)

RECURSIVE ParseDigits(_, _)
ParseDigits(s, zeros) ==
    IF Len(s) = 0 THEN 0
    ELSE 10 * ParseDigits(SubSeq(s, 1, Len(s) - 1), zeros)
            + DigitValue(s[Len(s)], zeros)

\* the whitespace int() skips around the digits of a bytes value: \t, \n,
\* U+000B, \f, \r and the space
AsciiWhitespace == {9, 10, 11, 12, 13, 32}

\* the whitespace int() skips around the digits of a str: the ASCII ones,
\* U+0085, U+00A0, U+1680, U+2000 to U+200A, U+2028, U+2029, U+202F, U+205F
\* and U+3000
WhitespaceChars ==
    AsciiWhitespace \cup {133, 160, 5760} \cup (8192..8202)
        \cup {8232, 8233, 8239, 8287, 12288}

\* the text without the whitespace around it
RECURSIVE Strip(_, _)
Strip(text, whitespace) ==
    IF text = <<>> THEN text
    ELSE IF Head(text) \in whitespace THEN Strip(Tail(text), whitespace)
    ELSE IF text[Len(text)] \in whitespace
    THEN Strip(SubSeq(text, 1, Len(text) - 1), whitespace)
    ELSE text

\* the text after its sign, "+" (43) or "-" (45), if it has one
Unsigned(text) ==
    IF text # <<>> /\ Head(text) \in {43, 45} THEN Tail(text) ELSE text

\* the most digits int() converts: sys.get_int_max_str_digits()
MaxStrDigits == 4300

\* the texts int() accepts: whitespace around, one sign, digits with single
\* underscores (95) between them, at most MaxStrDigits digits
IsIntLiteral(text, whitespace, zeros) ==
    LET body == Unsigned(Strip(text, whitespace))
        Digit(c) == IsDigit(c, zeros) IN
    /\ Len(body) > 0
    /\ \A i \in DOMAIN body :
          \/ IsDigit(body[i], zeros)
          \/ /\ body[i] = 95
             /\ 1 < i /\ i < Len(body)
             /\ IsDigit(body[i - 1], zeros) /\ IsDigit(body[i + 1], zeros)
    /\ Len(SelectSeq(body, Digit)) <= MaxStrDigits

\* the int of a text int() accepts
IntLiteral(text, whitespace, zeros) ==
    LET stripped == Strip(text, whitespace)
        Digit(c) == IsDigit(c, zeros)
        digits == SelectSeq(Unsigned(stripped), Digit) IN
    IF Head(stripped) = 45 THEN -ParseDigits(digits, zeros)
    ELSE ParseDigits(digits, zeros)

\* int("...") of a str: does it return, and what
IsIntText(text) == IsIntLiteral(text, WhitespaceChars, DecimalZeros)

IntText(text) == IntLiteral(text, WhitespaceChars, DecimalZeros)

\* int(b"...") of the bytes of a hash field: does it return, and what
IsIntBytes(bytes) == IsIntLiteral(bytes, AsciiWhitespace, AsciiZeros)

Atoi(bytes) == IntLiteral(bytes, AsciiWhitespace, AsciiZeros)

\* value -> the bytes held in the hash field
ToBytes(field, value) == IF field \in IntFields THEN Itoa(value) ELSE value

-----------------------------------------------------------------------------
(* StorageWrapper (products/dependencies.py) over a keyspace r *)

FormatKey(product_id) == "products:" \o product_id

RedisKeys == {FormatKey(id) : id \in ProductIdSet}

\* keys that exist: Redis holds no empty hash
ExistingKeys(r) == {k \in RedisKeys : r[k] # EmptyHash}

\* a hash that holds the five fields
HashComplete(document) == Fields \subseteq DOMAIN document

\* the fields in the order _from_hash reads them
HashFields ==
    <<"id", "title", "passenger_capacity", "maximum_speed", "in_stock">>

\* what reading a field raises: KeyError when the hash has no such field,
\* ValueError when int() rejects its bytes
FieldError(document, field) ==
    IF field \notin DOMAIN document THEN "KeyError"
    ELSE IF field \in IntFields /\ ~IsIntBytes(document[field])
    THEN "ValueError"
    ELSE "none"

\* what _from_hash raises on the document: the error of the first field
\* that has one
FromHashError(document) ==
    LET failing == {i \in DOMAIN HashFields :
                      FieldError(document, HashFields[i]) # "none"} IN
    IF failing = {} THEN "none"
    ELSE FieldError(document,
                    HashFields[CHOOSE i \in failing :
                                  \A j \in failing : i <= j])

FromHash(document) ==
    [id |-> document["id"],
     title |-> document["title"],
     passenger_capacity |-> Atoi(document["passenger_capacity"]),
     maximum_speed |-> Atoi(document["maximum_speed"]),
     in_stock |-> Atoi(document["in_stock"])]

NotFoundMessage(product_id) == "Product ID " \o product_id \o " does not exist"

StorageGet(r, product_id) ==
    LET product == r[FormatKey(product_id)] IN
    IF product = EmptyHash
    THEN [status |-> "NotFound", message |-> NotFoundMessage(product_id)]
    ELSE IF FromHashError(product) # "none"
    THEN [status |-> FromHashError(product)]
    ELSE [status |-> "ok", value |-> FromHash(product)]

(* list() runs over several Redis commands.  A listing is the state of one
   run: status "scan" (the SCAN is still to be sent), "hgetall" (keys are
   still to be read), "ok" (the loop is over) or the error _from_hash
   raised; visits, the number of reads each key still gets; value, the
   products yielded so far, in the order of their yield. *)

\* keys = {self._format_key(product_id) for product_id in product_ids}: a
\* set, every key once
ListKeys(product_ids) ==
    [k \in {FormatKey(product_ids[i]) : i \in DOMAIN product_ids} |-> 1]

\* scan_iter(count=1000): the keyspaces here hold a few keys, so one SCAN
\* returns them all; SCAN may return a key more than once (here: the keys
\* in twice, twice)
ScanIter(r, twice) ==
    [k \in ExistingKeys(r) |-> IF k \in twice THEN 2 ELSE 1]

\* the for loop over keys: it goes on while a key is left
Visiting(visits, value) ==
    [status |-> IF \A k \in DOMAIN visits : visits[k] = 0
                THEN "ok" ELSE "hgetall",
     visits |-> visits,
     value |-> value]

\* list(product_ids) up to its first Redis command
ListCalled(product_ids) ==
    IF product_ids = <<>>
    THEN [status |-> "scan", visits |-> <<>>, value |-> <<>>]
    ELSE Visiting(ListKeys(product_ids), <<>>)

\* the SCAN on keyspace r
ListScan(listing, r, twice) == Visiting(ScanIter(r, twice), listing.value)

\* one turn of the loop: HGETALL key on keyspace r, and the yield
ListHgetall(listing, r, key) ==
    LET document == r[key]
        visits == [listing.visits EXCEPT ![key] = @ - 1] IN
    IF document = EmptyHash THEN Visiting(visits, listing.value)
    ELSE IF FromHashError(document) # "none"
    THEN [status |-> FromHashError(document), visits |-> visits,
          value |-> listing.value]
    ELSE Visiting(visits, Append(listing.value, FromHash(document)))

ListPending(listing) == listing.status \in {"scan", "hgetall"}

\* what the next Redis command of the listing can make of it on keyspace r:
\* the keys of a set and of a scan come in no fixed order
ListNext(listing, r) ==
    IF listing.status = "scan"
    THEN {ListScan(listing, r, twice) : twice \in SUBSET ExistingKeys(r)}
    ELSE {ListHgetall(listing, r, key) :
            key \in {k \in DOMAIN listing.visits : listing.visits[k] > 0}}

\* what the caller of list() gets when the loop has ended
ListResult(listing) ==
    IF listing.status = "ok"
    THEN [status |-> "ok", value |-> listing.value]
    ELSE [status |-> listing.status]

\* a create that keeps the fields a stored hash already has
StorageCreateKeepExisting(r, product) ==
    [r EXCEPT ![FormatKey(product.id)] =
        [f \in (DOMAIN @) \cup (DOMAIN product) |->
            IF f \in DOMAIN @ THEN @[f] ELSE ToBytes(f, product[f])]]

\* hmset: sets the given fields of the hash, keeps its other fields
StorageCreate(r, product) ==
    [r EXCEPT ![FormatKey(product.id)] =
        [f \in (DOMAIN @) \cup (DOMAIN product) |->
            IF f \in DOMAIN product THEN ToBytes(f, product[f]) ELSE @[f]]]

\* a delete that always reports one key removed
KeysRemovedAlwaysOne(r, product_id) == 1

\* client.delete returns the number of keys removed
KeysRemoved(r, product_id) ==
    IF r[FormatKey(product_id)] # EmptyHash THEN 1 ELSE 0

StorageDeleteResult(r, product_id) ==
    IF KeysRemoved(r, product_id) = 0
    THEN [status |-> "NotFound", message |-> NotFoundMessage(product_id)]
    ELSE [status |-> "ok", value |-> [id |-> product_id]]

\* a delete that removes nothing
StorageDeleteNothing(r, product_id) == r

StorageDelete(r, product_id) ==
    [r EXCEPT ![FormatKey(product_id)] = EmptyHash]

\* in_stock as HINCRBY reads it: a missing field counts as 0 (the field
\* holds what hmset wrote for an int or what HINCRBY left, a plain decimal)
StockOf(document) ==
    IF "in_stock" \in DOMAIN document THEN Atoi(document["in_stock"]) ELSE 0

\* a decrement that stops at zero
StorageDecrementStockFloored(r, product_id, amount) ==
    LET key == FormatKey(product_id)
        value == IF StockOf(r[key]) - amount < 0 THEN 0
                 ELSE StockOf(r[key]) - amount IN
    [r EXCEPT ![key] =
        [f \in DOMAIN r[key] \cup {"in_stock"} |->
            IF f = "in_stock" THEN Itoa(value) ELSE r[key][f]]]

\* decrement_stock: HINCRBY key in_stock -amount, one command; the key and
\* the field are created when missing
StorageDecrementStock(r, product_id, amount) ==
    LET key == FormatKey(product_id)
        value == StockOf(r[key]) - amount IN
    [r EXCEPT ![key] =
        [f \in DOMAIN r[key] \cup {"in_stock"} |->
            IF f = "in_stock" THEN Itoa(value) ELSE r[key][f]]]

\* the reply of HINCRBY: the value of the field after the increment
StorageDecrementStockResult(r, product_id, amount) ==
    Atoi(StorageDecrementStock(r, product_id, amount)[FormatKey(product_id)]["in_stock"])

-----------------------------------------------------------------------------
(* Direct use of StorageWrapper by callers in the slots: get, create,
   delete and decrement_stock are one Redis command each; list is sent
   command by command by one of the callers *)

ListClient == "r1"

IdLists == UNION {[1..n -> ProductIdSet] : n \in 0..MaxLines}

\* the call of an idle caller has returned: what was called, and the result
Returned(s, call, result) ==
    /\ pc[s] = "idle"
    /\ started < MaxRequests
    /\ started' = started + 1
    /\ pc' = [pc EXCEPT ![s] = "done"]
    /\ req' = [req EXCEPT ![s] = call]
    /\ resp' = [resp EXCEPT ![s] = result]
    /\ UNCHANGED <<calls, tmp>>

CallGet(s, product_id) ==
    /\ Returned(s, [op |-> "get", product_id |-> product_id],
                StorageGet(redis, product_id))
    /\ UNCHANGED <<redis, orders>>

\* the caller calls list(product_ids)
CallList(s, product_ids) ==
    /\ pc[s] = "idle"
    /\ started < MaxRequests
    /\ started' = started + 1
    /\ pc' = [pc EXCEPT ![s] = "list"]
    /\ req' = [req EXCEPT ![s] = [op |-> "list", product_ids |-> product_ids]]
    /\ tmp' = [tmp EXCEPT ![s] = [set |-> TRUE,
                                  value |-> ListCalled(product_ids)]]
    /\ UNCHANGED <<redis, orders, calls, resp>>

\* the next Redis command of the caller's list(); after the last one the
\* call returns
CallListCommand(s) ==
    /\ pc[s] = "list"
    /\ \E listing \in ListNext(tmp[s].value, redis) :
          /\ tmp' = [tmp EXCEPT ![s] = [set |-> TRUE, value |-> listing]]
          /\ IF ListPending(listing) THEN UNCHANGED <<pc, resp>>
             ELSE /\ pc' = [pc EXCEPT ![s] = "done"]
                  /\ resp' = [resp EXCEPT ![s] = ListResult(listing)]
    /\ UNCHANGED <<redis, orders, req, calls, started>>

CallCreate(s, product) ==
    /\ Returned(s, [op |-> "create", product |-> product], [status |-> "ok"])
    /\ redis' = StorageCreate(redis, product)
    /\ UNCHANGED orders

CallDelete(s, product_id) ==
    /\ Returned(s, [op |-> "delete", product_id |-> product_id],
                StorageDeleteResult(redis, product_id))
    /\ redis' = StorageDelete(redis, product_id)
    /\ UNCHANGED orders

\* a keyspace written by create only
StoredVariants ==
    {EmptyHash} \cup {[f \in Fields |-> ToBytes(f, p[f])] : p \in ProductPayloads}

CreatedKeyspaces ==
    {r \in [RedisKeys -> StoredVariants] :
        \A id \in ProductIdSet :
            r[FormatKey(id)] # EmptyHash => r[FormatKey(id)]["id"] = id}

IdleSlots ==
    /\ pc = [s \in Slots |-> "idle"]
    /\ req = [s \in Slots |-> NoReq]
    /\ calls = [s \in Slots |-> <<>>]
    /\ tmp = [s \in Slots |-> NoTmp]
    /\ resp = [s \in Slots |-> NoResp]
    /\ started = 0

InitStore ==
    /\ redis \in CreatedKeyspaces
    /\ orders = <<>>
    /\ IdleSlots

\* the amounts of the decrement_stock calls
Amounts == {1, 2, 4}

CallDecrementStock(s, product_id, amount) ==
    /\ StorageDecrementStockResult(redis, product_id, amount) >= -MaxDebt
    /\ Returned(s, [op |-> "decrement_stock", product_id |-> product_id,
                    amount |-> amount],
                [status |-> "ok",
                 value |-> StorageDecrementStockResult(redis, product_id,
                                                       amount)])
    /\ redis' = StorageDecrementStock(redis, product_id, amount)
    /\ UNCHANGED orders

\* the caller takes the result; the slot is free for the next call
Respond(s) ==
    /\ pc[s] = "done"
    /\ pc' = [pc EXCEPT ![s] = "idle"]
    /\ req' = [req EXCEPT ![s] = NoReq]
    /\ calls' = [calls EXCEPT ![s] = <<>>]
    /\ tmp' = [tmp EXCEPT ![s] = NoTmp]
    /\ resp' = [resp EXCEPT ![s] = NoResp]
    /\ UNCHANGED <<redis, orders, started>>

\* a list() of one caller while the callers get, create, delete and
\* decrement_stock
NextStore ==
    \/ \E ids \in IdLists : CallList(ListClient, ids)
    \/ CallListCommand(ListClient)
    \/ \E s \in Slots :
          \/ \E id \in ProductIdSet : CallGet(s, id)
          \/ \E p \in ProductPayloads : CallCreate(s, p)
          \/ \E id \in ProductIdSet : CallDelete(s, id)
          \/ \E id \in ProductIdSet, amount \in Amounts :
                CallDecrementStock(s, id, amount)
          \/ Respond(s)

SpecStore == InitStore /\ [][NextStore]_vars

\* every operation of StorageWrapper, on any id, one call after the other
NextStoreStock ==
    \/ \E ids \in IdLists : CallList(ListClient, ids)
    \/ CallListCommand(ListClient)
    \/ \E id \in ProductIdSet : CallGet(ListClient, id)
    \/ \E p \in ProductPayloads : CallCreate(ListClient, p)
    \/ \E id \in ProductIdSet : CallDelete(ListClient, id)
    \/ \E id \in ProductIdSet, amount \in Amounts :
          CallDecrementStock(ListClient, id, amount)
    \/ Respond(ListClient)

SpecStoreStock == InitStore /\ [][NextStoreStock]_vars

-----------------------------------------------------------------------------
(* The orders service, as the gateway sees it through orders_rpc *)

NoneValue == [none |-> TRUE]

OrderIds == 1..(MaxOrders + 1)

\* get_order: the order, or OrderNotFound
OrdersGetOrder(os, order_id) ==
    IF order_id \in DOMAIN os
    THEN [status |-> "ok", value |-> os[order_id]]
    ELSE [status |-> "OrderNotFound", order_id |-> order_id]

OrderReferences(order, product_id) ==
    \E i \in DOMAIN order.order_details :
        order.order_details[i].product_id = product_id

\* get_order_by_product_id: the first order with a line on the product, or None
OrdersGetOrderByProductId(os, product_id) ==
    IF \E i \in DOMAIN os : OrderReferences(os[i], product_id)
    THEN os[CHOOSE i \in DOMAIN os :
                /\ OrderReferences(os[i], product_id)
                /\ \A j \in 1..(i - 1) : ~OrderReferences(os[j], product_id)]
    ELSE NoneValue

Min(a, b) == IF a < b THEN a ELSE b

\* list_orders: one page of the stored orders, with the paging data
OrdersListOrders(os, page, page_size) ==
    IF page < 1 \/ page_size < 1
    THEN [status |-> "RemoteError"]
    ELSE [status |-> "ok",
          value |-> [page |-> page, page_size |-> page_size, total |-> Len(os),
                     items |-> SubSeq(os, (page - 1) * page_size + 1,
                                      Min(page * page_size, Len(os)))]]

RECURSIVE CountLines(_)
CountLines(os) ==
    IF os = <<>> THEN 0
    ELSE Len(Head(os).order_details) + CountLines(Tail(os))

\* create_order: the new order, with the ids the service assigns
OrdersNewOrder(os, order_details) ==
    [id |-> Len(os) + 1,
     order_details |->
        [i \in DOMAIN order_details |->
            [id |-> CountLines(os) + i,
             product_id |-> order_details[i].product_id,
             price |-> order_details[i].price,
             quantity |-> order_details[i].quantity]]]

-----------------------------------------------------------------------------
(* Request bodies and the schemas that load them *)

\* a body that is no JSON text, with str() of the ValueError json.loads
\* raises on it
NoJson(text, exc) == [json |-> FALSE, text |-> text, exc |-> exc]

NotJson == NoJson("NOT-JSON", "Expecting value: line 1 column 1 (char 0)")

\* an object that is cut off after its brace
CutJson ==
    NoJson("{", "Expecting property name enclosed in double quotes: "
                    \o "line 1 column 2 (char 1)")

NoJsonBodies == {NotJson, CutJson}

Json(data) == [json |-> TRUE, data |-> data]

\* the line a client orders of a product: price and quantity go with the id
OrderLine(product_id) ==
    IF product_id = "p1"
    THEN [product_id |-> product_id, price |-> "9.99", quantity |-> 2]
    ELSE [product_id |-> product_id, price |-> "41.00", quantity |-> 3]

OrderLineFields == {"product_id", "price", "quantity"}

\* the product ids of submitted orders: every list of distinct ids, in
\* every order, and one list that names a product twice
OrderIdLists ==
    {ids \in IdLists : \A i, j \in DOMAIN ids : ids[i] = ids[j] => i = j}
        \cup {<<"p1", "p1">>}

ValidOrderData ==
    {[order_details |-> [i \in DOMAIN ids |-> OrderLine(ids[i])]] :
        ids \in OrderIdLists}

\* a line without its quantity
InvalidOrderData ==
    [order_details |-> <<[product_id |-> "p1", price |-> "41.00"]>>]

OrderBodies ==
    NoJsonBodies \cup {Json(InvalidOrderData)}
        \cup {Json(d) : d \in ValidOrderData}

InvalidProductData == [id |-> "p1"]

ProductBodies ==
    NoJsonBodies \cup {Json(InvalidProductData)}
        \cup {Json(p) : p \in ProductPayloads}

\* CreateOrderSchema(strict=True).loads: every line has its three fields
OrderSchemaValid(data) ==
    \A i \in DOMAIN data.order_details :
        OrderLineFields \subseteq DOMAIN data.order_details[i]

\* ProductSchema(strict=True).loads: the five Product fields are there
ProductSchemaValid(data) == Fields \subseteq DOMAIN data

\* CreateOrderSchema().dump(order_data).data['order_details']
SerializedOrderDetails(order_data) ==
    [i \in DOMAIN order_data.order_details |->
        [product_id |-> order_data.order_details[i].product_id,
         price |-> order_data.order_details[i].price,
         quantity |-> order_data.order_details[i].quantity]]

\* a query argument: absent, or its text
Omitted == [given |-> FALSE]

Given(text) == [given |-> TRUE, text |-> text]

\* request.args.get(name, default=default, type=int): the default when
\* int(text) raises ValueError
ArgsGetInt(arg, default) ==
    IF arg.given /\ IsIntText(arg.text) THEN IntText(arg.text) ELSE default

-----------------------------------------------------------------------------
(* GatewayService helpers (gateway/service.py) *)

DEFAULT_PAGE == 1

DEFAULT_PAGE_SIZE == 30

MAX_PAGE_SIZE == 100

\* no clamp at all
ClampPageSizeNever(page_size) == page_size

ClampPageSize(page_size) ==
    IF page_size > MAX_PAGE_SIZE THEN MAX_PAGE_SIZE ELSE page_size

ExtractProductIdsFromOrder(order) ==
    [i \in DOMAIN order.order_details |-> order.order_details[i].product_id]

RECURSIVE ExtractProductIdsFromOrders(_)
ExtractProductIdsFromOrders(os) ==
    IF os = <<>> THEN <<>>
    ELSE ExtractProductIdsFromOrder(Head(os))
            \o ExtractProductIdsFromOrders(Tail(os))

\* products_rpc.list(product_ids=product_ids) as the call leaves the
\* gateway
ListProducts(product_ids) == ListCalled(product_ids)

Range(seq) == {seq[i] : i \in DOMAIN seq}

\* the place of the last product of the list with the id
LastWithId(products, id) ==
    CHOOSE i \in DOMAIN products :
        /\ products[i].id = id
        /\ \A j \in DOMAIN products : products[j].id = id => j <= i

\* a map keyed by the products' titles
ProductMapByTitle(products) ==
    [t \in {d.title : d \in Range(products)} |->
        CHOOSE d \in Range(products) : d.title = t]

\* {prod['id']: prod for prod in products}: of the products with one id,
\* the one that comes last stays
ProductMap(products) ==
    [id \in {d.id : d \in Range(products)} |->
        products[LastWithId(products, id)]]

\* a found set that holds every id, fetched or not
FoundProductIdsAll(products) == ProductIdSet

\* {prod['id'] for prod in products}
FoundProductIds(products) == {d.id : d \in Range(products)}

ImageUrl(product_id) == IMAGE_ROOT \o "/" \o product_id \o ".jpg"

FillItem(item, product_map) ==
    [f \in (DOMAIN item) \cup {"product", "image"} |->
        IF f = "product" THEN product_map[item.product_id]
        ELSE IF f = "image" THEN ImageUrl(item.product_id)
        ELSE item[f]]

\* a fill that leaves a line as it is when the map has no product for it
FillOrderDetailsSkippingUnknown(order, product_map) ==
    [status |-> "ok",
     value |-> [order EXCEPT !.order_details =
                   [i \in DOMAIN @ |->
                       IF @[i].product_id \in DOMAIN product_map
                       THEN FillItem(@[i], product_map) ELSE @[i]]]]

\* _fill_order_details_with_product: product_map[product_id] raises KeyError
FillOrderDetailsWithProduct(order, product_map) ==
    IF \E i \in DOMAIN order.order_details :
            order.order_details[i].product_id \notin DOMAIN product_map
    THEN [status |-> "KeyError"]
    ELSE [status |-> "ok",
          value |-> [order EXCEPT !.order_details =
                        [i \in DOMAIN @ |-> FillItem(@[i], product_map)]]]

\* the loop run from the right: the last item not in found
RECURSIVE LastUnknownItem(_, _)
LastUnknownItem(items, found) ==
    IF items = <<>> THEN NoneValue
    ELSE IF items[Len(items)].product_id \notin found THEN items[Len(items)]
    ELSE LastUnknownItem(SubSeq(items, 1, Len(items) - 1), found)

\* the loop of _create_order: the first item, left to right, not in found
RECURSIVE FirstUnknownItem(_, _)
FirstUnknownItem(items, found) ==
    IF items = <<>> THEN NoneValue
    ELSE IF Head(items).product_id \notin found THEN Head(items)
    ELSE FirstUnknownItem(Tail(items), found)

ProductNotFoundMessage(product_id) == "Product Id " \o product_id

\* a delete that goes ahead whatever the orders service answered
MayDeleteAlways(order_with_product_id) == TRUE

\* delete_product: `if order_with_product_id is None`
MayDelete(order_with_product_id) == order_with_product_id = NoneValue

\* a handler that answers every failed load with BadRequest
LoadFailureAlwaysBadRequest(body) ==
    [status |-> "BadRequest",
     message |-> "Invalid json: "]

\* schema.loads failed: ValueError (no JSON) is turned into BadRequest, the
\* schema's ValidationError passes through
LoadFailure(body) ==
    IF ~body.json
    THEN [status |-> "BadRequest",
          message |-> "Invalid json: " \o body.exc]
    ELSE [status |-> "ValidationError"]

\* what products_rpc.create returns: the product it was given
ProductsCreate(product) == product

-----------------------------------------------------------------------------
(* Gateway requests: one action per call of the orders service and per
   Redis command of the products service *)

Call(rpc, args) == [rpc |-> rpc, args |-> args]

\* slot s takes a new request and issues the calls cs
Accept(s, request, cs) ==
    /\ pc[s] = "idle"
    /\ started < MaxRequests
    /\ started' = started + 1
    /\ req' = [req EXCEPT ![s] = request]
    /\ calls' = [calls EXCEPT ![s] = cs]

Finish(s, response) ==
    /\ pc' = [pc EXCEPT ![s] = "done"]
    /\ resp' = [resp EXCEPT ![s] = response]

Continue(s, at, value) ==
    /\ pc' = [pc EXCEPT ![s] = at]
    /\ tmp' = [tmp EXCEPT ![s] = [set |-> TRUE, value |-> value]]
    /\ UNCHANGED resp

Issue(s, call) == calls' = [calls EXCEPT ![s] = Append(@, call)]

\* GET /products/<id>
GetProduct(s, product_id) ==
    /\ Accept(s, [op |-> "get_product", product_id |-> product_id],
              <<Call("products.get", product_id)>>)
    /\ LET product == StorageGet(redis, product_id) IN
       Finish(s, IF product.status = "NotFound"
                 THEN [status |-> "ProductNotFound", message |-> product.message]
                 ELSE product)
    /\ UNCHANGED <<redis, orders, tmp>>

\* POST /products
CreateProduct(s, body) ==
    IF ~body.json
    THEN /\ Accept(s, [op |-> "create_product", body |-> body], <<>>)
         /\ Finish(s, LoadFailure(body))
         /\ UNCHANGED <<redis, orders, tmp>>
    ELSE IF ~ProductSchemaValid(body.data)
    THEN /\ Accept(s, [op |-> "create_product", body |-> body], <<>>)
         /\ Finish(s, LoadFailure(body))
         /\ UNCHANGED <<redis, orders, tmp>>
    ELSE /\ Accept(s, [op |-> "create_product", body |-> body],
                   <<Call("products.create", body.data)>>)
         /\ redis' = StorageCreate(redis, body.data)
         /\ LET product == ProductsCreate(body.data) IN
            Finish(s, [status |-> "ok", value |-> [id |-> product.id]])
         /\ UNCHANGED <<orders, tmp>>

\* DELETE /products/<id>: the check against the orders service
DeleteProductCheck(s, product_id) ==
    /\ Accept(s, [op |-> "delete_product", product_id |-> product_id],
              <<Call("orders.get_order_by_product_id", product_id)>>)
    /\ LET order_with_product_id ==
               OrdersGetOrderByProductId(orders, product_id) IN
       IF MayDelete(order_with_product_id)
       THEN Continue(s, "delete", order_with_product_id)
       ELSE /\ Finish(s, [status |-> "BadRequest",
                          message |-> "Product with Order can not be deleted"])
            /\ UNCHANGED tmp
    /\ UNCHANGED <<redis, orders>>

\* DELETE /products/<id>: the delete in the products service
DeleteProductDelete(s) ==
    /\ pc[s] = "delete"
    /\ Issue(s, Call("products.delete", req[s].product_id))
    /\ redis' = StorageDelete(redis, req[s].product_id)
    /\ LET deleted == StorageDeleteResult(redis, req[s].product_id) IN
       Finish(s, IF deleted.status = "NotFound"
                 THEN [status |-> "ProductNotFound", message |-> deleted.message]
                 ELSE [status |-> "ok", value |-> [id |-> req[s].product_id]])
    /\ UNCHANGED <<orders, req, tmp, started>>

\* a request in the middle of products_rpc.list: what it holds, and the
\* listing
Fetching(data, product_ids) ==
    [data |-> data, products |-> ListProducts(product_ids)]

\* the listing of slot s after its next Redis command
Fetch(s, products) == tmp' = [tmp EXCEPT ![s].value.products = products]

\* the products of the orders fetched, joined into them
Enriched(fetched_orders, products) ==
    IF products.status # "ok" THEN products
    ELSE LET product_map == ProductMap(products.value)
             filled == [i \in DOMAIN fetched_orders |->
                          FillOrderDetailsWithProduct(fetched_orders[i],
                                                      product_map)] IN
         IF \E i \in DOMAIN filled : filled[i].status # "ok"
         THEN [status |-> "KeyError"]
         ELSE [status |-> "ok",
               value |-> [i \in DOMAIN filled |-> filled[i].value]]

\* GET /orders: the page from the orders service
ListOrdersFetch(s, page_arg, page_size_arg) ==
    LET page == ArgsGetInt(page_arg, DEFAULT_PAGE)
        page_size == ClampPageSize(ArgsGetInt(page_size_arg, DEFAULT_PAGE_SIZE))
        result == OrdersListOrders(orders, page, page_size)
        request == [op |-> "list_orders", page |-> page_arg,
                    page_size |-> page_size_arg]
        list_orders == Call("orders.list_orders", <<page, page_size>>) IN
    /\ IF result.status = "ok" /\ Len(result.value.items) > 0
       THEN LET orders_product_ids ==
                    ExtractProductIdsFromOrders(result.value.items) IN
            /\ Accept(s, request,
                      <<list_orders, Call("products.list", orders_product_ids)>>)
            /\ Continue(s, "enrich_page",
                        Fetching(result.value, orders_product_ids))
       ELSE /\ Accept(s, request, <<list_orders>>)
            /\ Finish(s, result)
            /\ UNCHANGED tmp
    /\ UNCHANGED <<redis, orders>>

\* GET /orders: the products of the page, a Redis command at a time; after
\* the last one they are joined into the orders
ListOrdersEnrich(s) ==
    /\ pc[s] = "enrich_page"
    /\ \E products \in ListNext(tmp[s].value.products, redis) :
          /\ Fetch(s, products)
          /\ IF ListPending(products) THEN UNCHANGED <<pc, resp>>
             ELSE LET result == tmp[s].value.data
                      items == Enriched(result.items, ListResult(products)) IN
                  Finish(s, IF items.status # "ok" THEN items
                            ELSE [status |-> "ok",
                                  value |-> [result EXCEPT !.items = items.value]])
    /\ UNCHANGED <<redis, orders, req, calls, started>>

\* GET /orders/<id>: the order from the orders service
GetOrderFetch(s, order_id) ==
    LET order == OrdersGetOrder(orders, order_id)
        request == [op |-> "get_order", order_id |-> order_id]
        get_order == Call("orders.get_order", order_id) IN
    /\ IF order.status # "ok"
       THEN /\ Accept(s, request, <<get_order>>)
            /\ Finish(s, order)
            /\ UNCHANGED tmp
       ELSE LET order_product_ids == ExtractProductIdsFromOrder(order.value) IN
            /\ Accept(s, request,
                      <<get_order, Call("products.list", order_product_ids)>>)
            /\ Continue(s, "enrich_order",
                        Fetching(order.value, order_product_ids))
    /\ UNCHANGED <<redis, orders>>

\* GET /orders/<id>: the products of the order, a Redis command at a time;
\* after the last one they are joined into the order
GetOrderEnrich(s) ==
    /\ pc[s] = "enrich_order"
    /\ \E products \in ListNext(tmp[s].value.products, redis) :
          /\ Fetch(s, products)
          /\ IF ListPending(products) THEN UNCHANGED <<pc, resp>>
             ELSE LET order == tmp[s].value.data
                      filled == Enriched(<<order>>, ListResult(products)) IN
                  Finish(s, IF filled.status # "ok" THEN filled
                            ELSE [status |-> "ok", value |-> filled.value[1]])
    /\ UNCHANGED <<redis, orders, req, calls, started>>

\* create_order requests that may still add an order
PendingOrders == Cardinality({s \in Slots : pc[s] \in {"fetch", "commit"}})

\* POST /orders: the body is loaded and the products it names are asked for
CreateOrderValidate(s, body) ==
    IF ~body.json
    THEN /\ Accept(s, [op |-> "create_order", body |-> body], <<>>)
         /\ Finish(s, LoadFailure(body))
         /\ UNCHANGED <<redis, orders, tmp>>
    ELSE IF ~OrderSchemaValid(body.data)
    THEN /\ Accept(s, [op |-> "create_order", body |-> body], <<>>)
         /\ Finish(s, LoadFailure(body))
         /\ UNCHANGED <<redis, orders, tmp>>
    ELSE LET order_data == body.data
             order_product_ids == ExtractProductIdsFromOrder(order_data) IN
         /\ Len(orders) + PendingOrders < MaxOrders
         /\ Accept(s, [op |-> "create_order", body |-> body],
                   <<Call("products.list", order_product_ids)>>)
         /\ Continue(s, "fetch", Fetching(order_data, order_product_ids))
         /\ UNCHANGED <<redis, orders>>

\* POST /orders: the products named, a Redis command at a time; after the
\* last one every line is looked up among the products found
CreateOrderFetch(s) ==
    /\ pc[s] = "fetch"
    /\ \E products \in ListNext(tmp[s].value.products, redis) :
          /\ Fetch(s, products)
          /\ IF ListPending(products) THEN UNCHANGED <<pc, resp>>
             ELSE IF products.status # "ok"
             THEN Finish(s, ListResult(products))
             ELSE LET unknown ==
                          FirstUnknownItem(tmp[s].value.data.order_details,
                                           FoundProductIds(products.value)) IN
                  IF unknown # NoneValue
                  THEN Finish(s, [status |-> "ProductNotFound",
                                  message |->
                                    ProductNotFoundMessage(unknown.product_id)])
                  ELSE /\ pc' = [pc EXCEPT ![s] = "commit"]
                       /\ UNCHANGED resp
    /\ UNCHANGED <<redis, orders, req, calls, started>>

\* a commit that sends the order again after the first call returned
CreateOrderCommitRetried(s) ==
    /\ pc[s] = "commit"
    /\ LET order_details == SerializedOrderDetails(tmp[s].value.data)
           first == OrdersNewOrder(orders, order_details)
           order_created == OrdersNewOrder(Append(orders, first), order_details) IN
       /\ calls' = [calls EXCEPT ![s] =
                       @ \o <<Call("orders.create_order", order_details),
                              Call("orders.create_order", order_details)>>]
       /\ orders' = orders \o <<first, order_created>>
       /\ Finish(s, [status |-> "ok", value |-> [id |-> order_created.id]])
    /\ UNCHANGED <<redis, req, tmp, started>>

\* POST /orders: the order goes to the orders service
CreateOrderCommit(s) ==
    /\ pc[s] = "commit"
    /\ LET order_details == SerializedOrderDetails(tmp[s].value.data)
           order_created == OrdersNewOrder(orders, order_details) IN
       /\ Issue(s, Call("orders.create_order", order_details))
       /\ orders' = Append(orders, order_created)
       /\ Finish(s, [status |-> "ok", value |-> [id |-> order_created.id]])
    /\ UNCHANGED <<redis, req, tmp, started>>

\* the keyspace after create of p1 and of p2
BothStored ==
    StorageCreate(StorageCreate([k \in RedisKeys |-> EmptyHash],
                                ProductVariant("p1", 1)),
                  ProductVariant("p2", 2))

\* the paging arguments of the requests that run next to others; every kind
\* of argument is sent under SpecPaging
PageArgs == {Omitted}

PageSizeArgs == {Omitted}

Init ==
    /\ redis = BothStored
    /\ orders = <<>>
    /\ IdleSlots

Next ==
    \E s \in Slots :
        \/ \E id \in ProductIdSet : GetProduct(s, id)
        \/ \E body \in ProductBodies : CreateProduct(s, body)
        \/ \E id \in ProductIdSet : DeleteProductCheck(s, id)
        \/ DeleteProductDelete(s)
        \/ \E p \in PageArgs, ps \in PageSizeArgs : ListOrdersFetch(s, p, ps)
        \/ ListOrdersEnrich(s)
        \/ \E id \in OrderIds : GetOrderFetch(s, id)
        \/ GetOrderEnrich(s)
        \/ \E body \in OrderBodies : CreateOrderValidate(s, body)
        \/ CreateOrderFetch(s)
        \/ CreateOrderCommit(s)
        \/ Respond(s)

Spec == Init /\ [][Next]_vars

-----------------------------------------------------------------------------
(* list_orders alone, a request at a time, over every kind of paging
   argument *)

PagingInts == {-1, 0, 1, 2, 100, 101}

\* texts int() takes with a sign, with whitespace around, with an
\* underscore between digits and with digits of other scripts
PagingTexts ==
    {<<43, 50>>,                \* "+2"
     <<32, 50, 32>>,            \* " 2 "
     <<13, 50, 160>>,           \* "\r2" and U+00A0
     <<5760, 50, 12288>>,       \* "2" between U+1680 and U+3000
     <<1778>>,                  \* U+06F2, the digit two
     <<49, 95, 48, 48>>,        \* "1_00"
     <<1777, 48, 65297>>}       \* U+06F1, "0", U+FF11: 101

PagingArgs ==
    {Omitted, Given(<<120>>)} \cup {Given(Itoa(n)) : n \in PagingInts}
        \cup {Given(text) : text \in PagingTexts}

\* the orders after create_order of [p1] and then of [p2, p1]
SeedOrders ==
    LET first == OrdersNewOrder(<<>>, <<OrderLine("p1")>>) IN
    <<first, OrdersNewOrder(<<first>>, <<OrderLine("p2"), OrderLine("p1")>>)>>

InitPaging ==
    /\ redis = BothStored
    /\ orders = SeedOrders
    /\ IdleSlots

PagingSlot == "r1"

NextPaging ==
    \/ \E p \in PagingArgs, ps \in PagingArgs : ListOrdersFetch(PagingSlot, p, ps)
    \/ ListOrdersEnrich(PagingSlot)
    \/ Respond(PagingSlot)

SpecPaging == InitPaging /\ [][NextPaging]_vars

-----------------------------------------------------------------------------
(* One delete_product and one create_order on the same product, together *)

RaceProduct == "p1"

RaceBodies ==
    {Json(d) : d \in {v \in ValidOrderData :
                        \E i \in DOMAIN v.order_details :
                            v.order_details[i].product_id = RaceProduct}}

InitRace ==
    /\ redis \in CreatedKeyspaces
    /\ orders \in {<<>>, <<OrdersNewOrder(<<>>, <<OrderLine("p2")>>)>>}
    /\ orders # <<>> => redis[FormatKey("p2")] # EmptyHash
    /\ IdleSlots

NextRace ==
    \/ DeleteProductCheck("r1", RaceProduct)
    \/ DeleteProductDelete("r1")
    \/ \E body \in RaceBodies : CreateOrderValidate("r2", body)
    \/ CreateOrderFetch("r2")
    \/ CreateOrderCommit("r2")

SpecRace == InitRace /\ [][NextRace]_vars

-----------------------------------------------------------------------------
(* Gateway writes one at a time: a request starts when no other is between
   its backend calls *)

NoOtherInFlight(s) == \A t \in Slots \ {s} : pc[t] \in {"idle", "done"}

InitSerial ==
    /\ redis \in CreatedKeyspaces
    /\ orders \in {<<>>, <<OrdersNewOrder(<<>>, <<OrderLine("p2")>>)>>}
    /\ orders # <<>> => redis[FormatKey("p2")] # EmptyHash
    /\ IdleSlots

NextSerial ==
    \E s \in Slots :
        \/ NoOtherInFlight(s) /\ \E body \in ProductBodies : CreateProduct(s, body)
        \/ NoOtherInFlight(s) /\ \E id \in ProductIdSet : DeleteProductCheck(s, id)
        \/ DeleteProductDelete(s)
        \/ NoOtherInFlight(s) /\ \E body \in OrderBodies : CreateOrderValidate(s, body)
        \/ CreateOrderFetch(s)
        \/ CreateOrderCommit(s)
        \/ Respond(s)

SpecSerial == InitSerial /\ [][NextSerial]_vars

-----------------------------------------------------------------------------
(* Two delete_product requests together, every product stored, no other
   writer *)

InitDeletes ==
    /\ redis \in {r \in CreatedKeyspaces : \A k \in RedisKeys : r[k] # EmptyHash}
    /\ orders \in {<<>>, <<OrdersNewOrder(<<>>, <<OrderLine("p2")>>)>>}
    /\ IdleSlots

NextDeletes ==
    \E s \in Slots :
        \/ \E id \in ProductIdSet : DeleteProductCheck(s, id)
        \/ DeleteProductDelete(s)

SpecDeletes == InitDeletes /\ [][NextDeletes]_vars

-----------------------------------------------------------------------------
(* Callers of decrement_stock on stored products, together *)

\* a caller invokes decrement_stock; the command has not reached Redis yet
DecrementStockCall(s, product_id, amount) ==
    /\ redis[FormatKey(product_id)] # EmptyHash
    /\ Accept(s, [op |-> "decrement_stock", product_id |-> product_id,
                  amount |-> amount], <<>>)
    /\ pc' = [pc EXCEPT ![s] = "hincrby"]
    /\ UNCHANGED <<redis, orders, tmp, resp>>

\* Redis executes the caller's HINCRBY and replies
DecrementStockExec(s) ==
    /\ pc[s] = "hincrby"
    /\ redis' = StorageDecrementStock(redis, req[s].product_id, req[s].amount)
    /\ Finish(s, [status |-> "ok",
                  value |-> StorageDecrementStockResult(redis, req[s].product_id,
                                                        req[s].amount)])
    /\ UNCHANGED <<orders, req, calls, tmp, started>>

NextStock ==
    \/ \E s \in Slots, id \in ProductIdSet, amount \in Amounts :
            DecrementStockCall(s, id, amount)
    \/ \E s \in Slots : DecrementStockExec(s)

SpecStock == InitStore /\ [][NextStock]_vars

-----------------------------------------------------------------------------
(* Properties of the gateway handlers, checked under Spec *)

Stored(r, product_id) == r[FormatKey(product_id)] # EmptyHash

HasCall(cs, rpc) == \E i \in DOMAIN cs : cs[i].rpc = rpc

\* slot s takes a request of kind op in this step
Arrives(s, op) == pc[s] = "idle" /\ pc'[s] # "idle" /\ req'[s].op = op

\* slot s sends a Redis command of its batch fetch in this step
Reads(s) ==
    /\ pc[s] \in {"fetch", "enrich_order", "enrich_page"}
    /\ tmp'[s] # tmp[s]

\* the ids of the products a listing has read
ReadIds(listing) == {d.id : d \in Range(listing.value)}

\* the lines of a submitted order whose product is not among the ids found
UnknownAmong(found, details) ==
    {i \in DOMAIN details : details[i].product_id \notin found}

\* C1: a create_order whose valid payload names a product the batch fetch
\* did not return fails with ProductNotFound naming the first such product
\* id in the order of the submitted lines, calls create_order on the orders
\* service never, and leaves the orders and the products as they were.
C1_UnknownProductRefused ==
    [][\A s \in Slots :
        /\ (Arrives(s, "create_order") \/ (Reads(s) /\ pc[s] = "fetch"))
           => orders' = orders /\ redis' = redis
        /\ (/\ Reads(s) /\ pc[s] = "fetch" /\ pc'[s] # "fetch"
            /\ tmp'[s].value.products.status = "ok"
            /\ UnknownAmong(ReadIds(tmp'[s].value.products),
                            req[s].body.data.order_details) # {})
           => LET details == req[s].body.data.order_details
                  unknown == UnknownAmong(ReadIds(tmp'[s].value.products),
                                          details)
                  first == CHOOSE i \in unknown : \A j \in unknown : i <= j IN
              /\ pc'[s] = "done"
              /\ resp'[s] = [status |-> "ProductNotFound",
                             message |-> "Product Id " \o details[first].product_id]
              /\ ~HasCall(calls'[s], "orders.create_order")]_vars

\* an order on two products, neither stored, refused naming the first
C1_Witness ==
    \E s \in Slots :
        /\ pc[s] = "done"
        /\ req[s].op = "create_order"
        /\ req[s].body = Json([order_details |->
                                  <<OrderLine("p2"), OrderLine("p1")>>])
        /\ ~Stored(redis, "p1") /\ ~Stored(redis, "p2")
        /\ resp[s].status = "ProductNotFound"
        /\ resp[s].message = "Product Id p2"

\* C2: a delete_product of a product some order references fails with
\* BadRequest 'Product with Order can not be deleted', calls delete on the
\* products service never, and leaves the store as it was, so that get
\* returns what it returned before.
C2_DeleteRefusedWhenOrdered ==
    [][\A s \in Slots :
        (/\ Arrives(s, "delete_product")
         /\ \E i \in DOMAIN orders :
                OrderReferences(orders[i], req'[s].product_id))
        => /\ pc'[s] = "done"
           /\ resp'[s] = [status |-> "BadRequest",
                          message |-> "Product with Order can not be deleted"]
           /\ ~HasCall(calls'[s], "products.delete")
           /\ redis' = redis
           /\ StorageGet(redis', req'[s].product_id) =
                 StorageGet(redis, req'[s].product_id)]_vars

\* a refused delete of a stored product that an order references
C2_Witness ==
    \E s \in Slots :
        /\ pc[s] = "done"
        /\ req[s].op = "delete_product"
        /\ resp[s].status = "BadRequest"
        /\ \E i \in DOMAIN orders : OrderReferences(orders[i], req[s].product_id)
        /\ StorageGet(redis, req[s].product_id).status = "ok"

\* the orders slot s is about to enrich, as the orders service returned them
FetchedOrders(s) ==
    IF pc[s] = "enrich_order"
    THEN <<tmp[s].value.data>> ELSE tmp[s].value.data.items

\* the orders in the response of slot s
ReturnedOrders(s) ==
    IF req[s].op = "get_order" THEN <<resp[s].value>> ELSE resp[s].value.items

\* the batch fetch of a get_order or list_orders ends in this step
Enriches(s) == Reads(s) /\ pc[s] # "fetch" /\ pc'[s] = "done"

\* every product the orders reference is among the ids found
AllFound(found, os) ==
    \A i \in DOMAIN os : \A j \in DOMAIN os[i].order_details :
        os[i].order_details[j].product_id \in found

\* C4: every product the batch fetch of get_order and list_orders reads is
\* the Product stored under its id when it is read; when the fetch has read
\* a product for every id the fetched orders reference, the request returns
\* those orders, in order, each line in place with its id, product_id, price
\* and quantity as fetched, its product the Product read for that id and its
\* image IMAGE_ROOT/<product_id>.jpg.
C4_EnrichmentComplete ==
    [][\A s \in Slots :
        /\ (Reads(s) /\ pc[s] # "fetch")
           => LET before == tmp[s].value.products.value
                  after == tmp'[s].value.products.value IN
              \/ after = before
              \/ /\ after = Append(before, after[Len(after)])
                 /\ StorageGet(redis, after[Len(after)].id) =
                       [status |-> "ok", value |-> after[Len(after)]]
        /\ (/\ Enriches(s)
            /\ tmp'[s].value.products.status = "ok"
            /\ AllFound(ReadIds(tmp'[s].value.products), FetchedOrders(s)))
           => /\ resp'[s].status = "ok"
              /\ LET fetched == FetchedOrders(s)
                     returned == ReturnedOrders(s)'
                     read == Range(tmp'[s].value.products.value) IN
                 /\ Len(returned) = Len(fetched)
                 /\ \A i \in DOMAIN fetched :
                       /\ returned[i].id = fetched[i].id
                       /\ Len(returned[i].order_details)
                            = Len(fetched[i].order_details)
                       /\ \A j \in DOMAIN fetched[i].order_details :
                             LET line == fetched[i].order_details[j]
                                 out == returned[i].order_details[j] IN
                             /\ out.id = line.id
                             /\ out.product_id = line.product_id
                             /\ out.price = line.price
                             /\ out.quantity = line.quantity
                             /\ out.product \in read
                             /\ out.product.id = line.product_id
                             /\ out.image =
                                   "http://img/" \o line.product_id \o ".jpg"]_vars

\* an enriched two-line order next to an enriched page
C4_Witness ==
    \E s, t \in Slots :
        /\ pc[s] = "done" /\ pc[t] = "done"
        /\ req[s].op = "get_order" /\ req[t].op = "list_orders"
        /\ resp[s].status = "ok" /\ resp[t].status = "ok"
        /\ Len(resp[s].value.order_details) = 2
        /\ resp[s].value.order_details[1].product.id = "p2"
        /\ resp[s].value.order_details[2].product.id = "p1"
        /\ resp[s].value.order_details[2].image = "http://img/p1.jpg"
        /\ Len(resp[t].value.items) = 1
        /\ resp[t].value.items[1].order_details[1].product.title = "B"

\* C5: when a line of an order being enriched names a product the batch
\* fetch did not return, the request fails with a lookup error; no response
\* of get_order or list_orders holds a line without its product.
C5_MissingProductFailsLoudly ==
    [][\A s \in Slots :
        Enriches(s)
        => /\ ~AllFound(ReadIds(tmp'[s].value.products), FetchedOrders(s))
                => resp'[s].status = "KeyError"
           /\ resp'[s].status = "ok" =>
                LET returned == ReturnedOrders(s)' IN
                \A i \in DOMAIN returned :
                    \A j \in DOMAIN returned[i].order_details :
                        "product" \in DOMAIN returned[i].order_details[j]]_vars

\* a get_order of an order whose product is gone, failed with KeyError
C5_Witness ==
    \E s \in Slots :
        /\ pc[s] = "done"
        /\ req[s].op = "get_order"
        /\ resp[s].status = "KeyError"
        /\ \E j \in DOMAIN orders[req[s].order_id].order_details :
              ~Stored(redis, orders[req[s].order_id].order_details[j].product_id)

\* C8: a delete_product of a product no order references goes on to the
\* products service; there, if a document is stored under the id, the
\* request returns {id}, exactly that key is removed and get(id) then fails
\* with NotFound; if none is stored, the request fails with NotFound and
\* the store is unchanged.
C8_DeleteUnreferenced ==
    [][\A s \in Slots :
        /\ (/\ Arrives(s, "delete_product")
            /\ \A i \in DOMAIN orders :
                  ~OrderReferences(orders[i], req'[s].product_id))
           => pc'[s] = "delete" /\ redis' = redis
        /\ (pc[s] = "delete" /\ pc'[s] # "delete")
           => LET id == req[s].product_id IN
              /\ pc'[s] = "done"
              /\ IF Stored(redis, id)
                 THEN /\ resp'[s] = [status |-> "ok", value |-> [id |-> id]]
                      /\ \A k \in RedisKeys :
                            redis'[k] = IF k = "products:" \o id
                                        THEN EmptyHash ELSE redis[k]
                      /\ StorageGet(redis', id).status = "NotFound"
                 ELSE /\ resp'[s].status = "ProductNotFound"
                      /\ redis' = redis]_vars

\* two deletes of one product: one removed it, the other found nothing
C8_Witness ==
    \E s, t \in Slots :
        /\ pc[s] = "done" /\ pc[t] = "done"
        /\ req[s].op = "delete_product" /\ req[t].op = "delete_product"
        /\ req[s].product_id = req[t].product_id
        /\ resp[s] = [status |-> "ok", value |-> [id |-> req[s].product_id]]
        /\ resp[t].status = "ProductNotFound"
        /\ StorageGet(redis, req[s].product_id).status = "NotFound"
        /\ \E id \in ProductIdSet : Stored(redis, id)

\* the body of the request in slot s satisfies the schema of its handler
BodySatisfiesSchema(request) ==
    IF request.op = "create_product"
    THEN Fields \subseteq DOMAIN request.body.data
    ELSE \A i \in DOMAIN request.body.data.order_details :
            {"product_id", "price", "quantity"}
                \subseteq DOMAIN request.body.data.order_details[i]

\* C11: create_product and create_order answer a body that is no JSON with
\* BadRequest and a JSON body that violates the schema with ValidationError;
\* either way the request ends there, with no backend call made and the
\* products and the orders as they were.
C11_BadBodyStopsBeforeBackends ==
    [][\A s \in Slots :
        (/\ Arrives(s, "create_product") \/ Arrives(s, "create_order")
         /\ ~req'[s].body.json \/ ~BodySatisfiesSchema(req'[s]))
        => /\ pc'[s] = "done"
           /\ resp'[s].status = IF req'[s].body.json
                                THEN "ValidationError" ELSE "BadRequest"
           /\ calls'[s] = <<>>
           /\ redis' = redis
           /\ orders' = orders]_vars

\* a create_order without JSON next to a create_product with a partial body
C11_Witness ==
    \E s, t \in Slots :
        /\ pc[s] = "done" /\ pc[t] = "done"
        /\ req[s].op = "create_order" /\ req[s].body = NotJson
        /\ resp[s].status = "BadRequest" /\ calls[s] = <<>>
        /\ req[t].op = "create_product" /\ req[t].body = Json(InvalidProductData)
        /\ resp[t].status = "ValidationError" /\ calls[t] = <<>>

\* the lines of a submitted order, as the orders service is to receive them
SubmittedLines(details) ==
    [i \in DOMAIN details |->
        [product_id |-> details[i].product_id,
         price |-> details[i].price,
         quantity |-> details[i].quantity]]

SubmittedIds(details) == [i \in DOMAIN details |-> details[i].product_id]

CreateOrderCalls(cs) == {i \in DOMAIN cs : cs[i].rpc = "orders.create_order"}

ListCalls(cs) == {i \in DOMAIN cs : cs[i].rpc = "products.list"}

\* C12: a valid create_order first makes one list call on the products
\* service with the submitted product ids; while that call runs it makes no
\* other, and when the call has returned it goes on exactly if a product was
\* found for every submitted id; it then makes one create_order call on the
\* orders service with the submitted lines, in order, product_id, price and
\* quantity as submitted, and returns the id of the order that call created;
\* no request makes more than one list call or more than one create_order
\* call.
C12_CreateOrderCallSequence ==
    [][\A s \in Slots :
        /\ (/\ Arrives(s, "create_order")
            /\ req'[s].body.json
            /\ OrderSchemaValid(req'[s].body.data))
           => /\ pc'[s] = "fetch"
              /\ calls'[s] =
                    <<[rpc |-> "products.list",
                       args |-> SubmittedIds(req'[s].body.data.order_details)]>>
              /\ orders' = orders
        /\ (Reads(s) /\ pc[s] = "fetch")
           => /\ calls'[s] = calls[s]
              /\ orders' = orders
              /\ pc'[s] \in {"fetch", "commit", "done"}
              /\ pc'[s] = "commit" <=>
                    /\ tmp'[s].value.products.status = "ok"
                    /\ UnknownAmong(ReadIds(tmp'[s].value.products),
                                    req[s].body.data.order_details) = {}
        /\ (pc[s] = "commit" /\ pc'[s] # "commit")
           => LET details == req[s].body.data.order_details IN
              /\ pc'[s] = "done"
              /\ calls'[s] =
                    <<[rpc |-> "products.list", args |-> SubmittedIds(details)],
                      [rpc |-> "orders.create_order",
                       args |-> SubmittedLines(details)]>>
              /\ Len(orders') = Len(orders) + 1
              /\ orders' = Append(orders, orders'[Len(orders')])
              /\ SubmittedLines(orders'[Len(orders')].order_details)
                    = SubmittedLines(details)
              /\ resp'[s] = [status |-> "ok",
                             value |-> [id |-> orders'[Len(orders')].id]]
        /\ Cardinality(CreateOrderCalls(calls'[s])) <= 1
        /\ Cardinality(ListCalls(calls'[s])) <= 1]_vars

\* an order of two lines created and answered with its id
C12_Witness ==
    \E s \in Slots :
        /\ pc[s] = "done"
        /\ req[s].op = "create_order"
        /\ req[s].body = Json([order_details |->
                                  <<OrderLine("p2"), OrderLine("p1")>>])
        /\ resp[s].status = "ok"
        /\ Len(calls[s]) = 2
        /\ orders[resp[s].value.id].order_details[1].product_id = "p2"
        /\ orders[resp[s].value.id].order_details[1].price = "41.00"
        /\ orders[resp[s].value.id].order_details[2].quantity = 2

\* the product ids of the order lines the request of s is about
ReferencedIds(s) ==
    LET ids == IF pc[s] = "enrich_page"
               THEN ExtractProductIdsFromOrders(tmp[s].value.data.items)
               ELSE ExtractProductIdsFromOrder(tmp[s].value.data) IN
    {ids[i] : i \in DOMAIN ids}

\* C15: the products a get_order, list_orders or create_order request
\* fetches in its batch call are products its order lines reference; the
\* fetch scans the keyspace never, so that for orders without lines nothing
\* is fetched.
C15_FetchWithinReferenced ==
    [][\A s \in Slots :
        Reads(s)
        => /\ tmp[s].value.products.status # "scan"
           /\ ReadIds(tmp'[s].value.products) \subseteq ReferencedIds(s)]_vars

-----------------------------------------------------------------------------
(* Properties of list_orders paging, checked under SpecPaging *)

ListOrdersCalls(cs) == {i \in DOMAIN cs : cs[i].rpc = "orders.list_orders"}

\* texts a caller may write the integer n with, as code points
Spellings(n) ==
    IF n = 2
    THEN {<<50>>, <<43, 50>>, <<32, 50, 32>>, <<13, 50, 160>>,
          <<5760, 50, 12288>>, <<1778>>}
    ELSE IF n = 100 THEN {<<49, 48, 48>>, <<49, 95, 48, 48>>}
    ELSE IF n = 101 THEN {<<49, 48, 49>>, <<1777, 48, 65297>>}
    ELSE {Itoa(n)}

\* C6: a list_orders request makes exactly one list_orders call on the
\* orders service; its page is the requested page, or 1 if omitted; its
\* page_size is 30 if omitted, 100 if more than 100 was requested, and the
\* requested value otherwise.
C6_PagingForwarded ==
    \A s \in Slots :
        req[s].op = "list_orders" =>
            /\ ListOrdersCalls(calls[s]) = {1}
            /\ req[s].page = Omitted => calls[s][1].args[1] = 1
            /\ req[s].page_size = Omitted => calls[s][1].args[2] = 30
            /\ \A n \in PagingInts : \A text \in Spellings(n) :
                  /\ req[s].page = Given(text) => calls[s][1].args[1] = n
                  /\ req[s].page_size = Given(text) =>
                        calls[s][1].args[2] = IF n > 100 THEN 100 ELSE n

\* page two written U+06F2 with page_size 101 written U+06F1, "0", U+FF11,
\* forwarded as (2, 100), as the last of the requests
C6_Witness ==
    \E s \in Slots :
        /\ req[s].op = "list_orders"
        /\ req[s].page = Given(<<1778>>)
        /\ req[s].page_size = Given(<<1777, 48, 65297>>)
        /\ calls[s][1].args = <<2, 100>>
        /\ started = MaxRequests

\* C7: whatever integers the caller gives for page and page_size, the pair
\* passed to the orders service has page >= 1 and 1 <= page_size <= 100.
C7_PagingInRange ==
    \A s \in Slots :
        (/\ req[s].op = "list_orders"
         /\ \E n \in PagingInts : \E text \in Spellings(n) :
                req[s].page = Given(text)
         /\ \E n \in PagingInts : \E text \in Spellings(n) :
                req[s].page_size = Given(text))
        => /\ calls[s][1].args[1] >= 1
           /\ calls[s][1].args[2] >= 1
           /\ calls[s][1].args[2] <= 100

-----------------------------------------------------------------------------
(* The race of delete_product with create_order, checked under SpecRace *)

Dangling(product_id) ==
    /\ ~Stored(redis, product_id)
    /\ \E i \in DOMAIN orders : OrderReferences(orders[i], product_id)

BothSucceeded ==
    /\ pc["r1"] = "done" /\ resp["r1"].status = "ok"
    /\ pc["r2"] = "done" /\ resp["r2"].status = "ok"

\* C3: a delete_product(p) and a create_order on p that run together can
\* both succeed, and when they do a stored order line references p while
\* the store holds no product p.
C3_RaceLeavesDanglingLine ==
    BothSucceeded =>
        /\ Dangling(RaceProduct)
        /\ OrderReferences(orders[resp["r2"].value.id], RaceProduct)
        /\ HasCall(calls["r1"], "products.delete")
        /\ HasCall(calls["r2"], "orders.create_order")

\* both requests answered with success
C3_Witness == BothSucceeded /\ Dangling(RaceProduct)

-----------------------------------------------------------------------------
(* Properties of StorageWrapper, checked under SpecStore: a caller's list()
   runs its commands while the callers get, create, delete and
   decrement_stock *)

\* the product get() returns for the key, as a list; nothing for a key
\* without a document
StoredUnder(r, key) ==
    LET id == CHOOSE i \in ProductIdSet : "products:" \o i = key IN
    IF StorageGet(r, id).status = "ok"
    THEN <<StorageGet(r, id).value>> ELSE <<>>

\* C9: list(ids) raises nothing.  With ids empty it scans the keyspace and
\* reads every key that holds a document; with ids not empty it reads the
\* keys of the ids, each once whatever duplicates ids has.  Every read adds
\* the product stored under the key at that moment, or nothing when no
\* document is stored there, and the call returns after the last read with
\* what the reads added, in the order of the reads: products whose id is in
\* ids, once each.
C9_ListYieldsStoredOnce ==
    [][LET s == ListClient IN
       /\ (pc[s] = "idle" /\ pc'[s] = "list")
          => LET ids == req'[s].product_ids
                 called == tmp'[s].value IN
             /\ called.value = <<>>
             /\ IF ids = <<>> THEN called.status = "scan"
                ELSE /\ called.status = "hgetall"
                     /\ DOMAIN called.visits =
                           {"products:" \o ids[i] : i \in DOMAIN ids}
                     /\ \A k \in DOMAIN called.visits : called.visits[k] = 1
       /\ (pc[s] = "list" /\ tmp'[s] # tmp[s])
          => LET before == tmp[s].value
                 after == tmp'[s].value
                 returns == pc'[s] # "list" IN
             /\ returns => /\ pc'[s] = "done"
                            /\ resp'[s] = [status |-> "ok", value |-> after.value]
             /\ IF before.status = "scan"
                THEN /\ after.value = <<>>
                     /\ DOMAIN after.visits =
                           {"products:" \o id :
                               id \in {i \in ProductIdSet : Stored(redis, i)}}
                     /\ \A k \in DOMAIN after.visits : after.visits[k] >= 1
                     /\ returns <=> DOMAIN after.visits = {}
                ELSE \E k \in DOMAIN before.visits :
                        /\ before.visits[k] > 0
                        /\ after.visits =
                              [before.visits EXCEPT ![k] = before.visits[k] - 1]
                        /\ after.value = before.value \o StoredUnder(redis, k)
                        /\ returns <=> \A j \in DOMAIN after.visits :
                                          after.visits[j] = 0
       /\ (pc'[s] = "done" /\ req'[s].op = "list")
          => LET ids == req'[s].product_ids
                 wanted == IF ids = <<>> THEN ProductIdSet ELSE Range(ids) IN
             /\ resp'[s].status = "ok"
             /\ \A i \in DOMAIN resp'[s].value :
                   /\ resp'[s].value[i].id \in wanted
                   /\ ids # <<>> =>
                         \A j \in DOMAIN resp'[s].value :
                            resp'[s].value[j].id = resp'[s].value[i].id
                               => j = i]_vars

\* C10: a create(P2) on an id under which the store holds what a create(P1)
\* wrote raises nothing, leaves get(id) returning exactly P2 and leaves the
\* number of stored products as it was after the first create.
C10_CreateOverwrites ==
    [][\A s \in Slots :
        (/\ pc[s] = "idle" /\ pc'[s] = "done"
         /\ req'[s].op = "create"
         /\ \E p1 \in ProductPayloads :
               /\ p1.id = req'[s].product.id
               /\ StorageGet(redis, p1.id) = [status |-> "ok", value |-> p1])
        => (/\ resp'[s] = [status |-> "ok"]
            /\ StorageGet(redis', req'[s].product.id) =
                  [status |-> "ok", value |-> req'[s].product]
            /\ Cardinality(ExistingKeys(redis')) =
                  Cardinality(ExistingKeys(redis)))]_vars

\* two creates of one id with payloads that differ in every other field,
\* both returned, and get returns the payload of the later one
C10_Witness ==
    /\ \A s \in Slots : pc[s] = "done" /\ req[s].op = "create"
    /\ req["r1"].product.id = req["r2"].product.id
    /\ \A f \in Fields \ {"id"} : req["r1"].product[f] # req["r2"].product[f]
    /\ StorageGet(redis, req["r2"].product.id).value = req["r2"].product
    /\ Cardinality(ExistingKeys(redis)) = 1

-----------------------------------------------------------------------------
(* Properties of decrement_stock, checked under SpecStock *)

\* the in_stock the product was created with: create wrote the title too,
\* and no decrement touches it
InitialStock(r, product_id) ==
    (CHOOSE p \in ProductPayloads :
        p.id = product_id /\ p.title = r[FormatKey(product_id)]["title"]).in_stock

RECURSIVE SumAmounts(_, _)
SumAmounts(rq, ss) ==
    IF ss = {} THEN 0
    ELSE LET s == CHOOSE x \in ss : TRUE IN
         rq[s].amount + SumAmounts(rq, ss \ {s})

\* the callers whose decrement of the product has been executed
Decremented(p, rq, product_id) ==
    {s \in Slots : p[s] = "done" /\ rq[s].product_id = product_id}

\* C13: whenever Redis executes one caller's decrement of a stored product,
\* whatever the other callers have done or are about to do, the caller gets
\* the in_stock before the step less its own amount, with no error and no
\* floor at zero, that value is the one stored, and the stored in_stock of
\* every stored product is what create wrote less the amounts of all
\* the decrements executed on it.
C13_DecrementStockAtomic ==
    [][\A s \in Slots :
        (pc[s] = "hincrby" /\ pc'[s] = "done")
        => LET key == FormatKey(req[s].product_id) IN
           /\ resp'[s] = [status |-> "ok",
                          value |-> Atoi(redis[key]["in_stock"]) - req[s].amount]
           /\ Atoi(redis'[key]["in_stock"]) = resp'[s].value
           /\ \A id \in ProductIdSet :
                 redis[FormatKey(id)] # EmptyHash
                 => Atoi(redis'[FormatKey(id)]["in_stock"])
                      = InitialStock(redis, id)
                        - SumAmounts(req', Decremented(pc', req', id))]_vars

\* two callers decremented the same product while both calls were pending,
\* and the second reply is negative
C13_Witness ==
    /\ \A s \in Slots : pc[s] = "done" /\ req[s].product_id = "p1"
    /\ resp["r2"].value = 3 - req["r2"].amount
    /\ resp["r1"].value = resp["r2"].value - req["r1"].amount
    /\ resp["r1"].value < 0
    /\ Atoi(redis[FormatKey("p1")]["in_stock"]) = resp["r1"].value

-----------------------------------------------------------------------------
(* Referential integrity of serial gateway writes, checked under SpecSerial *)

\* C14: when create_product, delete_product and create_order requests run
\* one at a time from a state in which every order line references a stored
\* product, every order line references a stored product in every state
\* reached.
C14_SerialReferentialIntegrity ==
    \A i \in DOMAIN orders : \A j \in DOMAIN orders[i].order_details :
        redis[FormatKey(orders[i].order_details[j].product_id)] # EmptyHash

\* after an order on p1 was created, a delete of p2 succeeded and a later
\* create_order was refused for its missing product
C14_Witness ==
    /\ \E i \in DOMAIN orders : OrderReferences(orders[i], "p1")
    /\ ~Stored(redis, "p2")
    /\ pc["r1"] = "done" /\ req["r1"].op = "delete_product"
    /\ req["r1"].product_id = "p2" /\ resp["r1"].status = "ok"
    /\ pc["r2"] = "done" /\ req["r2"].op = "create_order"
    /\ resp["r2"].status = "ProductNotFound"

-----------------------------------------------------------------------------
(* Properties of the whole StorageWrapper, checked under SpecStoreStock *)

\* C16: after any calls of get, list, create, delete and decrement_stock
\* on any ids, every document in the store has the five Product fields, so
\* that a decrement_stock on a missing id has created none, and get of any
\* id returns a Product or fails with NotFound.
C16_StoredDocumentsComplete ==
    \A id \in ProductIdSet :
        /\ redis[FormatKey(id)] = EmptyHash \/ HashComplete(redis[FormatKey(id)])
        /\ StorageGet(redis, id).status \in {"ok", "NotFound"}

-----------------------------------------------------------------------------
(* Properties of concurrent deletes, checked under SpecDeletes *)

Succeeded(s, product_id) ==
    resp[s] = [status |-> "ok", value |-> [id |-> product_id]]

NotFoundFor(s, product_id) ==
    resp[s] = [status |-> "ProductNotFound",
               message |-> NotFoundMessage(product_id)]

\* C17: when two delete_product requests for the same stored product, which
\* no order references, have run together in whatever interleaving, one of
\* them has succeeded with the product's id, the other has failed with
\* NotFound, and the store does not hold the product.
C17_ConcurrentDeletesOneWins ==
    \A id \in ProductIdSet :
        (/\ \A s \in Slots : /\ pc[s] = "done"
                              /\ req[s].op = "delete_product"
                              /\ req[s].product_id = id
         /\ ~\E i \in DOMAIN orders : OrderReferences(orders[i], id))
        => /\ \E s \in Slots :
                /\ Succeeded(s, id)
                /\ \A t \in Slots \ {s} : NotFoundFor(t, id)
           /\ redis[FormatKey(id)] = EmptyHash

\* both requests passed the order check before either delete ran, and the
\* second delete found nothing
C17_Witness ==
    /\ \A s \in Slots : /\ pc[s] = "done"
                         /\ req[s].product_id = "p1"
                         /\ Len(calls[s]) = 2
                         /\ calls[s][2].rpc = "products.delete"
    /\ Succeeded("r2", "p1")
    /\ NotFoundFor("r1", "p1")
    /\ ~Stored(redis, "p1")

====
